---------------------------- MODULE Spec2Model ----------------------------
(* Console chess (src/chess.py): the rule engine (attack detection, move    *)
(* generation, self-check filter, move execution, terminal classification) *)
(* and the command loop of main() that drives it.                          *)
(*                                                                         *)
(* A board is a tuple of 8 rows of 8 cells; row 0 of the code is element 1 *)
(* here. A piece is <<color, type>>, an empty cell (Python's None) is <<>>. *)
(* A text token is a tuple of one-character strings.                       *)
EXTENDS Integers, Sequences, FiniteSets, TLC

WHITE == "w"
BLACK == "b"
None == <<>>

\* A function's outcome: a returned value, or the exception it raised.
Ret(v) == [exc |-> "", val |-> v]
Raise(e) == [exc |-> e, val |-> None]

---------------------------------------------------------------------------
(* Python list indexing on a list of length 8: indices -8..7 are valid,    *)
(* negative ones count from the end, anything else raises IndexError.      *)
ValidIndex(i) == i >= -8 /\ i <= 7
Idx(i) == IF i < 0 THEN i + 9 ELSE i + 1
At(board, r, c) == board[Idx(r)][Idx(c)]

back == <<"r", "n", "b", "q", "k", "b", "n", "r">>
EmptyRow == [i \in 1..8 |-> None]
initial_board ==
    << [i \in 1..8 |-> <<BLACK, back[i]>>],
       [i \in 1..8 |-> <<BLACK, "p">>],
       EmptyRow, EmptyRow, EmptyRow, EmptyRow,
       [i \in 1..8 |-> <<WHITE, "p">>],
       [i \in 1..8 |-> <<WHITE, back[i]>>] >>

in_bounds(r, c) == 0 <= r /\ r < 8 /\ 0 <= c /\ c < 8

\* The first king of the color in row-major order, or None.
find_king(board, color) ==
    LET K == {k \in 0..63 : board[(k \div 8) + 1][(k % 8) + 1] = <<color, "k">>}
    IN IF K = {} THEN None
       ELSE LET k == CHOOSE i \in K : \A j \in K : i <= j
            IN <<k \div 8, k % 8>>

Enemy(color) == IF color = BLACK THEN WHITE ELSE BLACK

---------------------------------------------------------------------------
(* Coordinate text. ord() of the characters the inputs use; int() of a     *)
(* single character is its digit value, and raises ValueError otherwise.   *)
LowerLetters == <<"a", "b", "c", "d", "e", "f", "g", "h", "i", "j", "k",
                  "l", "m", "n", "o", "p", "q", "r", "s", "t", "u", "v", "w",
                  "x", "y", "z">>
UpperLetters == <<"A", "B", "C", "D", "E", "F", "G", "H", "I">>
Digits == <<"0", "1", "2", "3", "4", "5", "6", "7", "8", "9">>

IndexIn(seq, ch) == CHOOSE i \in 1..Len(seq) : seq[i] = ch
IsIn(seq, ch) == \E i \in 1..Len(seq) : seq[i] = ch

Lower(ch) == IF IsIn(UpperLetters, ch)
             THEN LowerLetters[IndexIn(UpperLetters, ch)]
             ELSE ch
Ord(ch) == IF IsIn(LowerLetters, ch) THEN 96 + IndexIn(LowerLetters, ch)
           ELSE IF IsIn(UpperLetters, ch) THEN 64 + IndexIn(UpperLetters, ch)
           ELSE IF IsIn(Digits, ch) THEN 47 + IndexIn(Digits, ch)
           ELSE 95   \* the underscore
LowerTok(s) == [i \in 1..Len(s) |-> Lower(s[i])]

\* A variant that forgets that row 0 is rank 8.
algebraic_to_rc_unflipped(s) ==
    IF Len(s) < 2 THEN Raise("IndexError")
    ELSE IF ~IsIn(Digits, s[2]) THEN Raise("ValueError")
    ELSE Ret(<<(IndexIn(Digits, s[2]) - 1) - 1, Ord(Lower(s[1])) - Ord("a")>>)

algebraic_to_rc(s) ==
    IF Len(s) < 2 THEN Raise("IndexError")
    ELSE IF ~IsIn(Digits, s[2]) THEN Raise("ValueError")
    ELSE LET file == Ord(Lower(s[1])) - Ord("a")
             rank == (IndexIn(Digits, s[2]) - 1) - 1
         IN Ret(<<7 - rank, file>>)

rc_to_algebraic(r, c) == <<LowerLetters[c + 1], Digits[(8 - r) + 1]>>

---------------------------------------------------------------------------
(* Attack Detector                                                         *)
knight_offsets == << <<2, 1>>, <<1, 2>>, <<-1, 2>>, <<-2, 1>>,
                     <<-2, -1>>, <<-1, -2>>, <<1, -2>>, <<2, -1>> >>
diag_dirs == << <<1, 1>>, <<1, -1>>, <<-1, 1>>, <<-1, -1>> >>
orth_dirs == << <<1, 0>>, <<-1, 0>>, <<0, 1>>, <<0, -1>> >>
king_offsets == << <<-1, -1>>, <<-1, 0>>, <<-1, 1>>, <<0, -1>>,
                   <<0, 1>>, <<1, -1>>, <<1, 0>>, <<1, 1>> >>

\* One ray of the while loops: the first occupied square ends the scan.
RECURSIVE ray_attacked(_, _, _, _, _, _, _)
ray_attacked(board, rr, cc, dr, dc, by_color, kinds) ==
    IF ~in_bounds(rr, cc) THEN FALSE
    ELSE LET p == At(board, rr, cc)
         IN IF p # None
            THEN p[1] = by_color /\ p[2] \in kinds
            ELSE ray_attacked(board, rr + dr, cc + dc, dr, dc, by_color, kinds)

is_square_attacked(board, r, c, by_color) ==
    LET dir == IF by_color = WHITE THEN -1 ELSE 1
        step(o, typ) == in_bounds(r + o[1], c + o[2])
                        /\ At(board, r + o[1], c + o[2]) = <<by_color, typ>>
    IN \/ \E dc \in {-1, 1} : step(<<-dir, dc>>, "p")
       \/ \E i \in 1..8 : step(knight_offsets[i], "n")
       \/ \E i \in 1..4 : ray_attacked(board, r + diag_dirs[i][1], c + diag_dirs[i][2],
                                       diag_dirs[i][1], diag_dirs[i][2], by_color, {"b", "q"})
       \/ \E i \in 1..4 : ray_attacked(board, r + orth_dirs[i][1], c + orth_dirs[i][2],
                                       orth_dirs[i][1], orth_dirs[i][2], by_color, {"r", "q"})
       \/ \E i \in 1..8 : step(king_offsets[i], "k")

---------------------------------------------------------------------------
(* Move Generator                                                          *)

\* The hypothetical board of add_move: the piece moved, no promotion.
simulate(board, r, c, rr, cc) ==
    LET b1 == [board EXCEPT ![Idx(rr)][Idx(cc)] = At(board, r, c)]
    IN [b1 EXCEPT ![Idx(r)][Idx(c)] = None]

\* A variant that tests the king on the board before the move.
add_move_on_old_board(board, r, c, color, rr, cc) ==
    LET k == find_king(board, color)
    IN IF k = None THEN "TypeError"
       ELSE IF ~is_square_attacked(board, k[1], k[2], Enemy(color)) THEN "ok"
       ELSE "no"

\* A variant without the self-check test.
add_move_unfiltered(board, r, c, color, rr, cc) ==
    IF find_king(simulate(board, r, c, rr, cc), color) = None THEN "TypeError" ELSE "ok"

\* The test of add_move: ok keeps the destination, no drops it; unpacking
\* the None of find_king raises TypeError.
add_move(board, r, c, color, rr, cc) ==
    LET b2 == simulate(board, r, c, rr, cc)
        k == find_king(b2, color)
    IN IF k = None THEN "TypeError"
       ELSE IF ~is_square_attacked(b2, k[1], k[2], Enemy(color)) THEN "ok"
       ELSE "no"

Free(board, rr, cc, color) ==
    in_bounds(rr, cc) /\ (At(board, rr, cc) = None \/ At(board, rr, cc)[1] # color)

pawn_targets(board, r, c, color) ==
    LET dir == IF color = WHITE THEN -1 ELSE 1
        start_row == IF color = WHITE THEN 6 ELSE 1
        push == IF in_bounds(r + dir, c) /\ At(board, r + dir, c) = None
                THEN << <<r + dir, c>> >>
                     \o (IF r = start_row /\ At(board, r + 2 * dir, c) = None
                         THEN << <<r + 2 * dir, c>> >> ELSE <<>>)
                ELSE <<>>
        cap(dc) == IF in_bounds(r + dir, c + dc)
                      /\ At(board, r + dir, c + dc) # None
                      /\ At(board, r + dir, c + dc)[1] # color
                   THEN << <<r + dir, c + dc>> >> ELSE <<>>
    IN push \o cap(-1) \o cap(1)

offset_targets(board, r, c, color, offs) ==
    SelectSeq([i \in 1..Len(offs) |-> <<r + offs[i][1], c + offs[i][2]>>],
              LAMBDA d : Free(board, d[1], d[2], color))

\* One ray of the sliding loop: empty squares, then at most one capture.
RECURSIVE slide(_, _, _, _, _, _)
slide(board, rr, cc, dr, dc, color) ==
    IF ~in_bounds(rr, cc) THEN <<>>
    ELSE IF At(board, rr, cc) = None
         THEN << <<rr, cc>> >> \o slide(board, rr + dr, cc + dc, dr, dc, color)
         ELSE IF At(board, rr, cc)[1] # color THEN << <<rr, cc>> >> ELSE <<>>

RECURSIVE slide_targets(_, _, _, _, _)
slide_targets(board, r, c, color, dirs) ==
    IF dirs = <<>> THEN <<>>
    ELSE slide(board, r + dirs[1][1], c + dirs[1][2], dirs[1][1], dirs[1][2], color)
         \o slide_targets(board, r, c, color, Tail(dirs))

\* The destinations legal_moves_from hands to add_move, in the order of the code.
targets(board, r, c, color) ==
    LET typ == At(board, r, c)[2]
    IN IF typ = "p" THEN pawn_targets(board, r, c, color)
       ELSE IF typ = "n" THEN offset_targets(board, r, c, color, knight_offsets)
       ELSE IF typ \in {"b", "r", "q"}
            THEN slide_targets(board, r, c, color,
                               (IF typ \in {"b", "q"} THEN diag_dirs ELSE <<>>)
                               \o (IF typ \in {"r", "q"} THEN orth_dirs ELSE <<>>))
       ELSE IF typ = "k" THEN offset_targets(board, r, c, color, king_offsets)
       ELSE <<>>

\* The list moves after the calls of add_move, whose verdicts are given.
kept_moves(ts, verdict) ==
    LET kept == SelectSeq([i \in 1..Len(ts) |-> i], LAMBDA i : verdict[i] = "ok")
    IN IF \E i \in 1..Len(ts) : verdict[i] = "TypeError" THEN Raise("TypeError")
       ELSE Ret([j \in 1..Len(kept) |-> ts[kept[j]]])

\* The calls of add_move over the destinations ts, in order.
filter_moves(board, r, c, color, ts) ==
    kept_moves(ts, <<>> \o [i \in 1..Len(ts) |->
                              add_move(board, r, c, color, ts[i][1], ts[i][2])])

legal_moves_from(board, r, c, color) ==
    IF ~ValidIndex(r) \/ ~ValidIndex(c) THEN Raise("IndexError")
    ELSE LET p == At(board, r, c)
         IN IF p = None \/ p[1] # color THEN Ret(<<>>)
            ELSE filter_moves(board, r, c, color, targets(board, r, c, color))

\* The moves of one square paired with their source.
paired(r, c, ms) ==
    IF ms.exc # "" THEN ms
    ELSE Ret([j \in 1..Len(ms.val) |-> << <<r, c>>, ms.val[j] >>])

\* The double loop of all_legal_moves: the outcome per square, row-major.
per_square(board, color) ==
    <<>> \o [i \in 1..64 |->
               IF board[((i - 1) \div 8) + 1][((i - 1) % 8) + 1] = None
                  \/ board[((i - 1) \div 8) + 1][((i - 1) % 8) + 1][1] # color
               THEN Ret(<<>>)
               ELSE paired((i - 1) \div 8, (i - 1) % 8,
                           legal_moves_from(board, (i - 1) \div 8, (i - 1) % 8, color))]

\* The list res: the squares' moves in order, or the first exception raised.
collect(per) ==
    LET bad == {i \in 1..64 : per[i].exc # ""}
        row(r) == per[8 * r + 1].val \o per[8 * r + 2].val \o per[8 * r + 3].val
                  \o per[8 * r + 4].val \o per[8 * r + 5].val \o per[8 * r + 6].val
                  \o per[8 * r + 7].val \o per[8 * r + 8].val
    IN IF bad # {} THEN Raise(per[CHOOSE i \in bad : \A j \in bad : i <= j].exc)
       ELSE Ret(row(0) \o row(1) \o row(2) \o row(3) \o row(4) \o row(5) \o row(6) \o row(7))

all_legal_moves(board, color) == collect(per_square(board, color))

---------------------------------------------------------------------------
(* Move Executor. The board argument is the caller's list, changed in      *)
(* place: the board field of the outcome is that list after the call.      *)
MoveOutcome(exc, ok, msg, board) == [exc |-> exc, ok |-> ok, msg |-> msg, board |-> board]

Member(seq, x) == \E i \in 1..Len(seq) : seq[i] = x

\* A variant that promotes on row 0 only.
place_white_promotion_only(board, r1, c1, r2, c2, color) ==
    LET piece == At(board, r1, c1)
        b1 == [board EXCEPT ![Idx(r1)][Idx(c1)] = None]
    IN IF piece[2] = "p" /\ r2 = 0
       THEN [b1 EXCEPT ![Idx(r2)][Idx(c2)] = <<color, "q">>]
       ELSE [b1 EXCEPT ![Idx(r2)][Idx(c2)] = piece]

\* A variant that applies the move to a copy and leaves the list of the
\* caller alone.
place_on_copy(board, r1, c1, r2, c2, color) == board

\* Lines 193-199: the source cleared, the piece or a queen on the destination.
place(board, r1, c1, r2, c2, color) ==
    LET piece == At(board, r1, c1)
        b1 == [board EXCEPT ![Idx(r1)][Idx(c1)] = None]
    IN IF piece[2] = "p" /\ (r2 = 0 \/ r2 = 7)
       THEN [b1 EXCEPT ![Idx(r2)][Idx(c2)] = <<color, "q">>]
       ELSE [b1 EXCEPT ![Idx(r2)][Idx(c2)] = piece]

\* A variant that lifts the piece off the source before the legality test.
apply_lifting_first(board, r1, c1, r2, c2, color, ms) ==
    IF ms.exc # "" THEN MoveOutcome(ms.exc, FALSE, "", board)
    ELSE IF ~Member(ms.val, <<r2, c2>>)
    THEN MoveOutcome("", FALSE, "Illegal move.",
                     [board EXCEPT ![Idx(r1)][Idx(c1)] = None])
    ELSE MoveOutcome("", TRUE, "OK", place(board, r1, c1, r2, c2, color))

\* Lines 190-200, given the list ms of legal_moves_from.
apply_if_legal(board, r1, c1, r2, c2, color, ms) ==
    IF ms.exc # "" THEN MoveOutcome(ms.exc, FALSE, "", board)
    ELSE IF ~Member(ms.val, <<r2, c2>>)
    THEN MoveOutcome("", FALSE, "Illegal move.", board)
    ELSE MoveOutcome("", TRUE, "OK", place(board, r1, c1, r2, c2, color))

\* Lines 185-200, given the coordinates algebraic_to_rc returned.
move_rc(board, r1, c1, r2, c2, color) ==
    IF ~in_bounds(r1, c1) \/ ~in_bounds(r2, c2)
    THEN MoveOutcome("", FALSE, "Out of bounds.", board)
    ELSE IF At(board, r1, c1) = None \/ At(board, r1, c1)[1] # color
    THEN MoveOutcome("", FALSE, "No piece of yours on source.", board)
    ELSE apply_if_legal(board, r1, c1, r2, c2, color,
                        legal_moves_from(board, r1, c1, color))

move(board, src, dst, color) ==
    LET a == algebraic_to_rc(src)
        b == algebraic_to_rc(dst)
    IN IF a.exc # "" THEN MoveOutcome(a.exc, FALSE, "", board)
       ELSE IF b.exc # "" THEN MoveOutcome(b.exc, FALSE, "", board)
       ELSE move_rc(board, a.val[1], a.val[2], b.val[1], b.val[2], color)

---------------------------------------------------------------------------
(* Game State Evaluator                                                    *)
in_check(board, color) ==
    LET k == find_king(board, color)
    IN IF k = None THEN Raise("TypeError")
       ELSE Ret(is_square_attacked(board, k[1], k[2], Enemy(color)))

\* The shape is_checkmate and is_stalemate share: False unless the check
\* flag is the wanted one, and then whether no legal move is left.
no_move_left(chk, wanted, all) ==
    IF chk.exc # "" THEN chk
    ELSE IF chk.val # wanted THEN Ret(FALSE)
    ELSE IF all.exc # "" THEN all
    ELSE Ret(Len(all.val) = 0)

is_checkmate(board, color) ==
    no_move_left(in_check(board, color), TRUE, all_legal_moves(board, color))

\* A variant that forgets the check test.
is_stalemate_unchecked(board, color) ==
    no_move_left(in_check(board, color), in_check(board, color).val,
                 all_legal_moves(board, color))

is_stalemate(board, color) ==
    no_move_left(in_check(board, color), FALSE, all_legal_moves(board, color))

---------------------------------------------------------------------------
(* The inputs. A line is the list of its whitespace-separated tokens.      *)
T2(f, d) == <<f, d>>
a1 == T2("a", "1")
a2 == T2("a", "2")
a4 == T2("a", "4")
a5 == T2("a", "5")
a6 == T2("a", "6")
a8 == T2("a", "8")
b1 == T2("b", "1")
b6 == T2("b", "6")
b7 == T2("b", "7")
b8 == T2("b", "8")
d3 == T2("d", "3")
d8 == T2("d", "8")
e1 == T2("e", "1")
e2 == T2("e", "2")
e4 == T2("e", "4")
e5 == T2("e", "5")
e7 == T2("e", "7")
f2 == T2("f", "2")
f3 == T2("f", "3")
g1 == T2("g", "1")
g2 == T2("g", "2")
g3 == T2("g", "3")
g4 == T2("g", "4")
h1 == T2("h", "1")
h2 == T2("h", "2")
h3 == T2("h", "3")
h4 == T2("h", "4")
h5 == T2("h", "5")
h7 == T2("h", "7")

quit_word == <<"q", "u", "i", "t">>
exit_word == <<"e", "x", "i", "t">>
moves_word == <<"m", "o", "v", "e", "s">>

\* Coordinate pairs typed as moves: the fool's mate, a white and a black pawn
\* walking to promotion, answers to the queen's check, a capture of the king.
MovePairs ==
    { <<f2, f3>>, <<e7, e5>>, <<g2, g4>>, <<d8, h4>>,
      <<a2, a4>>, <<a4, a5>>, <<a5, a6>>, <<a6, b7>>, <<b7, a8>>,
      <<h7, h5>>, <<h5, h4>>, <<h4, h3>>, <<h3, g2>>, <<g2, h1>>,
      <<g2, g3>>, <<h4, g3>>, <<h2, g3>>, <<h4, e1>>,
      <<b1, b6>>, <<b1, b7>>, <<b7, b8>>, <<g2, g1>>, <<e2, d3>>, <<a1, b1>> }

\* Tokens that are no square of the board, or not in the two-character form.
BadTokens ==
    { <<"e">>, <<"e", "x">>, <<"e", "9">>, <<"e", "0">>, <<"b", "9">>,
      <<"i", "2">>, <<"_", "2">> }

MoveLines ==
    MovePairs
    \cup {<<t, e4>> : t \in BadTokens} \cup {<<e2, t>> : t \in BadTokens}
    \cup { << <<"F", "2">>, <<"F", "3">> >>, << <<"f", "2", "x">>, <<"f", "3", "x">> >> }
QueryLines ==
    {<<moves_word, t>> : t \in BadTokens \cup {a1, e2, e4, e7, g2, h4, <<"E", "2">>}}
    \cup { <<moves_word, e2, e4>>, << <<"M", "o", "v", "e", "s">>, d8 >> }
OtherLines ==
    { <<quit_word>>, <<exit_word>>, << <<"Q", "u", "i", "t">> >>,
      <<e2>>, <<e2, e4, e5>>, <<moves_word>> }
Lines == MoveLines \cup QueryLines \cup OtherLines

\* Section 6 of the specification: a file letter a-h, case-insensitive,
\* followed by a rank digit 1-8.
WellFormed(tok) ==
    /\ Len(tok) = 2
    /\ Lower(tok[1]) \in {"a", "b", "c", "d", "e", "f", "g", "h"}
    /\ tok[2] \in {"1", "2", "3", "4", "5", "6", "7", "8"}

---------------------------------------------------------------------------
(* main(): the command loop.                                               *)
VARIABLES
    board,     \* the list main() holds and passes to every call
    turn,      \* the side to move
    pc,        \* loop: top of the while; input: at input(); done: after a
               \* break; fault: ended by an uncaught exception
    cmd,       \* the kind of the last command read: none, move, moves, quit, other
    out,       \* the last message printed or returned, or the exception raised
    wf,        \* whether the coordinates of the last command were well formed
    src_kind,  \* the source square of the last call of legal_moves_from by
               \* the moves command: own, other, oob; none when not called
    sel,       \* the last move applied: <<piece, r1, c1, r2, c2>>, or <<>>
    plies      \* the number of moves applied so far

vars == <<board, turn, pc, cmd, out, wf, src_kind, sel, plies>>

\* The longest game explored, in moves applied.
MaxPlies == 10

Init ==
    /\ board = initial_board
    /\ turn = WHITE
    /\ pc = "loop"
    /\ cmd = "none"
    /\ out = ""
    /\ wf = TRUE
    /\ src_kind = "none"
    /\ sel = <<>>
    /\ plies = 0

Quiet == cmd' = "none" /\ wf' = TRUE /\ src_kind' = "none" /\ sel' = <<>>

\* A variant that does not stop on a checkmate.
LoopOutcome_past_mate(cm, sm, chk) ==
    IF cm.exc # "" THEN pc' = "fault" /\ out' = cm.exc
    ELSE IF sm.exc # "" THEN pc' = "fault" /\ out' = sm.exc
    ELSE IF sm.val THEN pc' = "done" /\ out' = "Stalemate. Draw."
    ELSE IF chk.val THEN pc' = "input" /\ out' = "to move - CHECK."
    ELSE pc' = "input" /\ out' = "to move."

\* Lines 239-250: print the board, stop at a terminal position, else prompt.
LoopOutcome(cm, sm, chk) ==
    IF cm.exc # "" THEN pc' = "fault" /\ out' = cm.exc
    ELSE IF cm.val THEN pc' = "done" /\ out' = "is checkmated."
    ELSE IF sm.exc # "" THEN pc' = "fault" /\ out' = sm.exc
    ELSE IF sm.val THEN pc' = "done" /\ out' = "Stalemate. Draw."
    ELSE IF chk.val THEN pc' = "input" /\ out' = "to move - CHECK."
    ELSE pc' = "input" /\ out' = "to move."

LoopTop ==
    /\ pc = "loop"
    /\ LoopOutcome(is_checkmate(board, turn), is_stalemate(board, turn),
                   in_check(board, turn))
    /\ Quiet
    /\ UNCHANGED <<board, turn, plies>>

IsQuit(line) == Len(line) = 1 /\ LowerTok(line[1]) \in {quit_word, exit_word}
IsMoves(line) == Len(line) >= 2 /\ LowerTok(line[1]) = moves_word

\* Lines 252-253.
Quit(line) ==
    /\ pc = "input" /\ IsQuit(line)
    /\ pc' = "done" /\ cmd' = "quit" /\ out' = "quit"
    /\ wf' = TRUE /\ src_kind' = "none" /\ sel' = <<>>
    /\ UNCHANGED <<board, turn, plies>>

SquareKind(b, r, c, color) ==
    IF ~in_bounds(r, c) THEN "oob"
    ELSE IF b[r + 1][c + 1] # None /\ b[r + 1][c + 1][1] = color THEN "own"
    ELSE "other"

\* Lines 265-270, given the list ms of legal_moves_from.
ShowMoves(ms) ==
    IF ms.exc # "" THEN pc' = "fault" /\ out' = ms.exc
    ELSE IF ms.val = <<>> THEN pc' = "loop" /\ out' = "No legal moves for"
    ELSE pc' = "loop" /\ out' = "Legal moves:"

\* Lines 254-270: the moves command.
MovesQuery(line) ==
    /\ pc = "input" /\ ~IsQuit(line) /\ IsMoves(line)
    /\ cmd' = "moves" /\ sel' = <<>>
    /\ IF Len(line) # 2
       THEN pc' = "loop" /\ out' = "Usage: moves <square>"
            /\ wf' = TRUE /\ src_kind' = "none"
       ELSE LET rc == algebraic_to_rc(line[2])
            IN /\ wf' = WellFormed(line[2])
               /\ IF rc.exc # ""
                  THEN pc' = "loop" /\ out' = "Bad square." /\ src_kind' = "none"
                  ELSE /\ src_kind' = SquareKind(board, rc.val[1], rc.val[2], turn)
                       /\ ShowMoves(legal_moves_from(board, rc.val[1], rc.val[2], turn))
    /\ UNCHANGED <<board, turn, plies>>

\* Lines 271-274.
BadArity(line) ==
    /\ pc = "input" /\ ~IsQuit(line) /\ ~IsMoves(line) /\ Len(line) # 2
    /\ pc' = "loop" /\ cmd' = "other" /\ out' = "Enter a move like: e2 e4"
    /\ wf' = TRUE /\ src_kind' = "none" /\ sel' = <<>>
    /\ UNCHANGED <<board, turn, plies>>

\* Lines 276-280, given the outcome res of move().
AfterMove(res, a, b) ==
    /\ board' = res.board
    /\ IF res.exc # ""
       THEN pc' = "fault" /\ out' = res.exc /\ sel' = <<>>
            /\ UNCHANGED <<turn, plies>>
       ELSE /\ pc' = "loop" /\ out' = res.msg
            /\ IF res.ok
               THEN /\ sel' = <<At(board, a[1], a[2]), a[1], a[2], b[1], b[2]>>
                    /\ turn' = (IF turn = WHITE THEN BLACK ELSE WHITE)
                    /\ plies' = plies + 1
               ELSE sel' = <<>> /\ UNCHANGED <<turn, plies>>

\* Lines 275-280: a move; the turn passes only when move() returns ok.
MoveCmd(line) ==
    /\ pc = "input" /\ ~IsQuit(line) /\ ~IsMoves(line) /\ Len(line) = 2
    /\ plies < MaxPlies
    /\ cmd' = "move"
    /\ wf' = (WellFormed(line[1]) /\ WellFormed(line[2]))
    /\ src_kind' = "none"
    /\ AfterMove(move(board, line[1], line[2], turn),
                 algebraic_to_rc(line[1]).val, algebraic_to_rc(line[2]).val)

Next ==
    \/ LoopTop
    \/ \E line \in Lines : Quit(line)
    \/ \E line \in Lines : MovesQuery(line)
    \/ \E line \in Lines : BadArity(line)
    \/ \E line \in Lines : MoveCmd(line)

Spec == Init /\ [][Next]_vars

---------------------------------------------------------------------------
(* Positions from later in a game, for the claims about the engine on any  *)
(* board: the loop is then started on the position with the given side to  *)
(* move, as if the game had been played up to it.                          *)
empty_board == [i \in 1..8 |-> EmptyRow]

RECURSIVE set_up(_, _)
set_up(b, places) ==
    IF places = <<>> THEN b
    ELSE set_up([b EXCEPT ![places[1][2] + 1][places[1][3] + 1] = places[1][1]],
                Tail(places))

\* Black king a8, white king c6, white queen b6: black to move is stalemated.
stalemate_board ==
    set_up(empty_board, << <<<<BLACK, "k">>, 0, 0>>, <<<<WHITE, "k">>, 2, 2>>,
                           <<<<WHITE, "q">>, 2, 1>> >>)
\* The same with the queen still on b1: b1-b6 stalemates, b1-b7 mates.
queen_ending_board ==
    set_up(empty_board, << <<<<BLACK, "k">>, 0, 0>>, <<<<WHITE, "k">>, 2, 2>>,
                           <<<<WHITE, "q">>, 7, 1>> >>)
\* A rook on a1 behind its own pawn on a2.
blocked_rook_board ==
    set_up(empty_board, << <<<<WHITE, "r">>, 7, 0>>, <<<<WHITE, "p">>, 6, 0>>,
                           <<<<WHITE, "k">>, 7, 4>>, <<<<BLACK, "k">>, 0, 7>> >>)
\* King e1, bishop e2 pinned by the rook on e8.
pinned_bishop_board ==
    set_up(empty_board, << <<<<WHITE, "k">>, 7, 4>>, <<<<WHITE, "b">>, 6, 4>>,
                           <<<<BLACK, "r">>, 0, 4>>, <<<<BLACK, "k">>, 0, 7>> >>)
\* A white pawn on b7 and a black pawn on g2, each one step from promotion
\* by a push or by capturing a rook.
promotion_board ==
    set_up(empty_board, << <<<<WHITE, "p">>, 1, 1>>, <<<<BLACK, "r">>, 0, 0>>,
                           <<<<BLACK, "k">>, 0, 4>>, <<<<BLACK, "p">>, 6, 6>>,
                           <<<<WHITE, "r">>, 7, 7>>, <<<<WHITE, "k">>, 7, 4>> >>)

Positions ==
    { <<initial_board, WHITE>>,
      <<stalemate_board, BLACK>>, <<stalemate_board, WHITE>>,
      <<queen_ending_board, WHITE>>, <<queen_ending_board, BLACK>>,
      <<blocked_rook_board, WHITE>>, <<blocked_rook_board, BLACK>>,
      <<pinned_bishop_board, WHITE>>, <<pinned_bishop_board, BLACK>>,
      <<promotion_board, WHITE>>, <<promotion_board, BLACK>> }

InitPos ==
    /\ \E pos \in Positions : board = pos[1] /\ turn = pos[2]
    /\ pc = "loop"
    /\ cmd = "none"
    /\ out = ""
    /\ wf = TRUE
    /\ src_kind = "none"
    /\ sel = <<>>
    /\ plies = 0

SpecPos == InitPos /\ [][Next]_vars

---------------------------------------------------------------------------
(* Properties.                                                             *)

\* The board has just been set up or changed: every reachable position
\* passes through exactly one such state.
Fresh == pc = "loop" /\ out \in {"", "OK"}

Colors == {WHITE, BLACK}

(* C1: every move of all_legal_moves(board, color), applied with move()    *)
(* (promotion included), is accepted and leaves a board on which           *)
(* in_check(board, color) is false, for both colors on every position.     *)
C1_LegalMovesKeepKingSafe ==
    Fresh =>
      \A color \in Colors :
        LET all == all_legal_moves(board, color)
        IN /\ all.exc = ""
           /\ \A i \in 1..Len(all.val) :
                LET res == move(board,
                                rc_to_algebraic(all.val[i][1][1], all.val[i][1][2]),
                                rc_to_algebraic(all.val[i][2][1], all.val[i][2][2]),
                                color)
                IN res.ok /\ in_check(res.board, color) = Ret(FALSE)

\* The side to move is in check and has legal answers.
C1_Witness ==
    /\ Fresh /\ plies > 0
    /\ in_check(board, turn) = Ret(TRUE)
    /\ all_legal_moves(board, turn).val # <<>>

KingCount(b, color) ==
    Cardinality({k \in 0..63 : b[(k \div 8) + 1][(k % 8) + 1] = <<color, "k">>})

(* C2: in every state of a game played from initial_board() the board      *)
(* holds exactly one white king and exactly one black king.                *)
C2_OneKingEach == KingCount(board, WHITE) = 1 /\ KingCount(board, BLACK) = 1

\* A capture has been made next to an attacked king: the queen has taken on
\* g3 with check.
C2_Witness ==
    /\ cmd = "move" /\ out = "OK"
    /\ sel = <<<<BLACK, "q">>, 4, 7, 5, 6>>
    /\ in_check(board, WHITE) = Ret(TRUE)

(* C3: on every board with a king of the color, is_checkmate and           *)
(* is_stalemate are never both true, and both are false whenever           *)
(* all_legal_moves(board, color) is non-empty.                             *)
C3_MateStalemateExclusive ==
    Fresh =>
      \A color \in Colors :
        LET cm == is_checkmate(board, color)
            sm == is_stalemate(board, color)
            all == all_legal_moves(board, color)
        IN /\ cm.exc = "" /\ sm.exc = "" /\ all.exc = ""
           /\ ~(cm.val /\ sm.val)
           /\ (all.val # <<>> => ~cm.val /\ ~sm.val)

\* The queen has just mated on b7: no move is left and the king is attacked.
C3_Witness ==
    /\ Fresh /\ sel = <<<<WHITE, "q">>, 7, 1, 1, 1>>
    /\ all_legal_moves(board, turn) = Ret(<<>>)
    /\ is_checkmate(board, turn) = Ret(TRUE)

Terminal(b, color) ==
    is_checkmate(b, color) = Ret(TRUE) \/ is_stalemate(b, color) = Ret(TRUE)

(* C4: once the position is checkmate or stalemate for the side to move,   *)
(* the loop stops: from the top of the loop it goes to its end without     *)
(* asking for input, input is only asked on a position that is neither,    *)
(* and after the end nothing changes any more.                             *)
C4_TerminalStops ==
    [][ /\ (pc = "loop" /\ Terminal(board, turn)) =>
              (pc' = "done" /\ board' = board /\ turn' = turn)
        /\ (pc = "loop" /\ pc' = "input") => ~Terminal(board, turn)
        /\ pc = "done" => UNCHANGED vars ]_vars

\* The loop has ended on a stalemate it reached by a move.
C4_Witness ==
    pc = "done" /\ out = "Stalemate. Draw." /\ plies > 0 /\ turn = BLACK

Rejections == {"Out of bounds.", "No piece of yours on source.", "Illegal move."}

(* C5: a request move() rejects leaves the board as it was, the loop goes  *)
(* back to its top with the same side to move; the side to move changes    *)
(* exactly in the steps where move() succeeds.                             *)
C5_RejectionKeepsState ==
    [][ /\ (cmd' = "move" /\ out' \in Rejections) =>
              (board' = board /\ turn' = turn /\ pc' = "loop" /\ plies' = plies)
        /\ (turn' # turn) <=> (pc = "input" /\ cmd' = "move" /\ out' = "OK") ]_vars

\* A move was refused in the middle of a game, on each of the three grounds
\* in turn; this is the refusal of an illegal destination.
C5_Witness ==
    cmd = "move" /\ out = "Illegal move." /\ pc = "loop" /\ plies > 2

C7_MalformedRejected ==
    cmd = "move" => (pc # "fault" /\ (~wf => out = "Out of bounds."))

(* C8: legal_moves_from never fails, and returns the empty list for a      *)
(* source that is out of bounds, empty or of the other color, also when    *)
(* called by the moves command.                                            *)
C8_GeneratorNeverFails ==
    (cmd = "moves" /\ src_kind # "none") =>
        (pc # "fault" /\ (src_kind \in {"oob", "other"} => out = "No legal moves for"))

FarRow(color) == IF color = WHITE THEN 0 ELSE 7

(* C9: a successful pawn move to the farthest row (0 for white, 7 for      *)
(* black) leaves a queen of the mover on the destination, any other        *)
(* successful move leaves the piece that moved; the source is empty        *)
(* afterwards and no other square changes.                                 *)
C9_PromotionAndFrame ==
    [][ (cmd' = "move" /\ out' = "OK") =>
            LET piece == sel'[1]
                r1 == sel'[2]
                c1 == sel'[3]
                r2 == sel'[4]
                c2 == sel'[5]
                landed == IF piece[2] = "p" /\ r2 = FarRow(turn)
                          THEN <<turn, "q">> ELSE piece
            IN /\ piece = board[r1 + 1][c1 + 1] /\ piece[1] = turn
               /\ <<r1, c1>> # <<r2, c2>>
               /\ \A r \in 0..7, c \in 0..7 :
                    board'[r + 1][c + 1] =
                        IF <<r, c>> = <<r2, c2>> THEN landed
                        ELSE IF <<r, c>> = <<r1, c1>> THEN None
                        ELSE board[r + 1][c + 1] ]_vars

\* A black pawn has reached row 7 and a black queen stands there.
C9_Witness ==
    /\ cmd = "move" /\ out = "OK"
    /\ sel # <<>> /\ sel[1] = <<BLACK, "p">> /\ sel[4] = 7
    /\ At(board, sel[4], sel[5]) = <<BLACK, "q">>

(* C10: from the initial board with white to move, f2-f3, e7-e5, g2-g4,    *)
(* d8-h4 are each accepted in that order, and white is then checkmated.    *)
C10_FoolsMate ==
    (pc = "loop" /\ plies = 0 /\ board = initial_board /\ turn = WHITE) =>
        LET m1 == move(board, f2, f3, WHITE)
            m2 == move(m1.board, e7, e5, BLACK)
            m3 == move(m2.board, g2, g4, WHITE)
            m4 == move(m3.board, d8, h4, BLACK)
        IN /\ m1.ok /\ m2.ok /\ m3.ok /\ m4.ok
           /\ is_checkmate(m4.board, WHITE) = Ret(TRUE)

\* The loop itself has played the four moves and announced the mate.
C10_Witness ==
    /\ pc = "done" /\ out = "is checkmated." /\ plies = 4 /\ turn = WHITE
    /\ At(board, 4, 7) = <<BLACK, "q">> /\ At(board, 4, 6) = <<WHITE, "p">>
    /\ At(board, 5, 5) = <<WHITE, "p">> /\ At(board, 3, 4) = <<BLACK, "p">>

=============================================================================
